---- MODULE Spec2Model ----
(***************************************************************************)
(* Salesforce OAuth proxy (salesforce-proxy.js): the Authorization Code    *)
(* handshake (login, callback, refresh, status, logout), the process-wide  *)
(* token variables and the authenticated request helper used by the        *)
(* contact endpoints.                                                      *)
(*                                                                         *)
(* Every route handler is a sequence of steps separated by its awaits: a   *)
(* ...Start action runs the handler from the arrival of the request to its *)
(* first await (or to its response when it returns before awaiting), a     *)
(* ...Resume action runs it from the provider's answer to the response.    *)
(* The two consecutive awaits of a provider call (fetch, then the reading  *)
(* of the body) touch no program state in between and are one suspension.  *)
(*                                                                         *)
(* Four variables record what the last step did: req (the handler that ran,*)
(* with the parameters of the request it started on or the provider answer *)
(* it resumed on), sent (the outbound call it issued, if any), resp (the   *)
(* response it sent to the browser, if any) and touched (the stored values *)
(* it changed).                                                            *)
(***************************************************************************)
EXTENDS Integers, Sequences, FiniteSets, Bags, TLC

\* ---------------------------------------------------------------- bounds
\* number of login attempts that reach the state generator
MaxLogins == 2
\* number of handlers that may be suspended on a provider call at once
MaxInflight == 2

\* ---------------------------------------------------------------- values
NULL == "null"
UNDEF == "undefined"

\* JavaScript truthiness of the string-or-absent values of this program
Truthy(v) == v \notin {NULL, UNDEF, ""}

Sessions == {"A", "B"}

\* values a token response can carry
AccessTokens == {"T1", "T2"}
RefreshTokens == {"R1", "R2"}
InstanceUrls == {"https://org.example.com", "https://na139.salesforce.com"}
ErrorDescriptions == {"expired authorization code"}

\* environments the process can be started in (client id, client secret)
ClientIds == {"", "3MVG9"}
ClientSecrets == {"", "s3cr3t"}
LoginUrl == "https://login.salesforce.com"

\* query parameters of a callback request; a state is the index of the
\* login that generated it, 0 is a missing or empty parameter and
\* MaxLogins + 1 a value no login generated
QueryStates == 0 .. (MaxLogins + 1)
QueryErrors == {UNDEF, "access_denied"}
QueryCodes == {"abc"}

NoSession == [oauthState |-> 0, codeVerifier |-> 0]
NoCall == [to |-> "none"]
NoResp == [kind |-> "none"]
NoReq == [kind |-> "none"]

VARIABLES accessToken, instanceUrl, refreshToken, config, cookies, store, nonce,
          flight, req, sent, resp, touched

tokens == <<accessToken, instanceUrl, refreshToken>>

\* everything the process stores about the provider's grant
TokenRecord ==
    [accessToken |-> accessToken, instanceUrl |-> instanceUrl,
     refreshToken |-> refreshToken]
vars == <<accessToken, instanceUrl, refreshToken, config, cookies, store, nonce,
          flight, req, sent, resp, touched>>

\* the stored values the step changed
Touched ==
    {n \in {"accessToken"} : accessToken' # accessToken}
    \cup {n \in {"refreshToken"} : refreshToken' # refreshToken}
    \cup {n \in {"instanceUrl"} : instanceUrl' # instanceUrl}
    \cup {n \in {"session"} : store' # store}

\* ------------------------------------------------------------- helpers
\* flight is the bag of the handlers suspended on a provider call
Suspended == BagToSet(flight)
CanSuspend == BagCardinality(flight) < MaxInflight
Suspend(c) == flight (+) SetToBag({c})
Resume(c) == flight (-) SetToBag({c})

\* encodeURIComponent on the strings this program passes to it
EncodeURIComponent(v) ==
    CASE v = "Authentication failed" -> "Authentication%20failed"
      [] v = "Token exchange failed" -> "Token%20exchange%20failed"
      [] v = "expired authorization code" -> "expired%20authorization%20code"
      [] OTHER -> v

ErrorRedirect(v) == "/?error=" \o EncodeURIComponent(v)

\* a || b on string-or-absent values
OrElse(a, b) == IF Truthy(a) THEN a ELSE b

\* answers of the token endpoint: the fetch rejects, the body is not JSON,
\* or a JSON body arrives with a 2xx or a non-2xx status
\* a complete body, and the bodies that lack one of its fields
Grant(at, rt, iu) == [access_token |-> at, refresh_token |-> rt, instance_url |-> iu]
TokenBodies ==
    {Grant("T1", "R1", "https://org.example.com"),
     Grant("T2", "R2", "https://na139.salesforce.com"),
     Grant("T1", UNDEF, "https://org.example.com"),
     Grant("T2", UNDEF, "https://na139.salesforce.com"),
     Grant(UNDEF, "R1", "https://org.example.com"),
     Grant("T1", "R1", UNDEF)}
TokenOutcomes ==
    {[type |-> "reject"], [type |-> "badjson"]}
    \cup {[type |-> "json", ok |-> TRUE, body |-> b] : b \in TokenBodies}
    \cup {[type |-> "json", ok |-> FALSE, error_description |-> d] :
            d \in ErrorDescriptions \cup {UNDEF}}

\* ---------------------------------------------------------------- Init
\* the state after the process started; browsers is the set of session
\* cookies that requests arrive with
Start(browsers) ==
    /\ accessToken = NULL
    /\ instanceUrl = NULL
    /\ refreshToken = NULL
    /\ config \in [clientId : ClientIds, clientSecret : ClientSecrets]
    /\ cookies = browsers
    /\ req = NoReq
    /\ touched = {}
    /\ store = [s \in Sessions |-> NoSession]
    /\ nonce = 0
    /\ flight = EmptyBag
    /\ sent = NoCall
    /\ resp = NoResp

\* one browser
Init == Start({"A"})
\* two browsers, each with its own session
InitSessions == Start(Sessions)

\* --------------------------------------------------------------- login
\* a configuration check that looks at the client id only
ConfigIncompleteIdOnly == config.clientId = ""

ConfigIncomplete == config.clientId = "" \/ config.clientSecret = ""

\* a login that generates its verifier once and stores the same one again
LoginSessionReusedVerifier(n) == [oauthState |-> n, codeVerifier |-> 1]

\* the session object of a login request after it stored a new state
LoginSession(n) == [oauthState |-> n, codeVerifier |-> n]

\* a login that forgets the stored tokens before it starts the handshake
LoginStartClearing(s) ==
    /\ req' = [kind |-> "login", phase |-> "start", sess |-> s]
    /\ ~ConfigIncomplete
    /\ nonce < MaxLogins
    /\ CanSuspend
    /\ nonce' = nonce + 1
    /\ flight' = Suspend([kind |-> "login", sess |-> s, state |-> nonce + 1])
    /\ sent' = [to |-> "probe", method |-> "HEAD", state |-> nonce + 1]
    /\ resp' = NoResp
    /\ accessToken' = NULL
    /\ refreshToken' = NULL
    /\ instanceUrl' = NULL
    /\ UNCHANGED <<config, cookies, store>>
    /\ touched' = Touched

LoginStart(s) ==
    /\ req' = [kind |-> "login", phase |-> "start", sess |-> s]
    /\ IF ConfigIncomplete
       THEN /\ resp' = [kind |-> "login", status |-> 500, success |-> FALSE,
                        error |-> "OAuth configuration incomplete"]
            /\ sent' = NoCall
            /\ UNCHANGED <<nonce, flight>>
       ELSE /\ nonce < MaxLogins
            /\ CanSuspend
            /\ nonce' = nonce + 1
            /\ flight' = Suspend([kind |-> "login", sess |-> s, state |-> nonce + 1])
            /\ sent' = [to |-> "probe", method |-> "HEAD", state |-> nonce + 1]
            /\ resp' = NoResp
    /\ UNCHANGED <<tokens, config, cookies, store>>
    /\ touched' = Touched

\* answers of the authorization URL probe: a status, or 0 when the fetch rejects
ProbeOutcomes == {0, 302, 400}

\* a login that keeps the pending state in one place for every browser
LoginResumeSharedStore(c, probe) ==
    /\ c.kind = "login"
    /\ req' = [kind |-> "login", phase |-> "resume", sess |-> c.sess, probe |-> probe]
    /\ resp' = [kind |-> "login", status |-> 200, success |-> TRUE, state |-> c.state]
    /\ store' = [s \in Sessions |-> LoginSession(c.state)]
    /\ flight' = Resume(c)
    /\ sent' = NoCall
    /\ UNCHANGED <<tokens, config, cookies, nonce>>
    /\ touched' = Touched

LoginResume(c, probe) ==
    /\ c.kind = "login"
    /\ req' = [kind |-> "login", phase |-> "resume", sess |-> c.sess, probe |-> probe]
    /\ resp' = IF probe = 400
               THEN [kind |-> "login", status |-> 400, success |-> FALSE,
                     error |-> "Connected App not configured for OAuth Authorization Code flow"]
               ELSE [kind |-> "login", status |-> 200, success |-> TRUE,
                     state |-> c.state]
    \* the session is saved when the response ends
    /\ store' = [store EXCEPT ![c.sess] = LoginSession(c.state)]
    /\ flight' = Resume(c)
    /\ sent' = NoCall
    /\ UNCHANGED <<tokens, config, cookies, nonce>>
    /\ touched' = Touched

\* ------------------------------------------------------------ callback
\* a state check that only asks for the parameter to be present
StateValidPresenceOnly(qstate, sessState) == qstate # 0

\* the state check of the callback: passes when the parameter is present
\* and equals the session's oauthState
StateValid(qstate, sessState) == qstate # 0 /\ qstate = sessState

\* the body of the token POST
TokenRequest(code, verifier) ==
    IF verifier # 0
    THEN [to |-> "token", grant_type |-> "authorization_code", code |-> code,
          code_verifier |-> verifier]
    ELSE [to |-> "token", grant_type |-> "authorization_code", code |-> code]

\* a callback that deletes the verifier and keeps the state in the session
SessionAfterCallbackKeepsState(session) == [session EXCEPT !.codeVerifier = 0]

\* the request's session after the callback deleted the used state and verifier
SessionAfterCallback(session) ==
    [session EXCEPT !.oauthState = 0, !.codeVerifier = 0]

\* a callback that forgets the stored tokens when it rejects the request
CallbackStartClearing(s, qcode, qstate, qerror) ==
    /\ req' = [kind |-> "callback", phase |-> "start", sess |-> s, code |-> qcode,
               state |-> qstate, error |-> qerror]
    /\ IF Truthy(qerror) \/ ~StateValid(qstate, store[s].oauthState)
       THEN /\ resp' = [kind |-> "callback", status |-> 302,
                        location |-> IF Truthy(qerror) THEN ErrorRedirect(qerror)
                                     ELSE "/?error=invalid_state"]
            /\ sent' = NoCall
            /\ accessToken' = NULL
            /\ refreshToken' = NULL
            /\ instanceUrl' = NULL
            /\ UNCHANGED flight
       ELSE /\ CanSuspend
            /\ flight' = Suspend([kind |-> "callback", sess |-> s,
                                  session |-> SessionAfterCallback(store[s])])
            /\ sent' = TokenRequest(qcode, store[s].codeVerifier)
            /\ resp' = NoResp
            /\ UNCHANGED tokens
    /\ UNCHANGED <<config, cookies, store, nonce>>
    /\ touched' = Touched

\* a callback that does not look at the error parameter
CallbackStartIgnoringError(s, qcode, qstate, qerror) ==
    /\ req' = [kind |-> "callback", phase |-> "start", sess |-> s, code |-> qcode,
               state |-> qstate, error |-> qerror]
    /\ IF ~StateValid(qstate, store[s].oauthState)
       THEN /\ resp' = [kind |-> "callback", status |-> 302,
                        location |-> "/?error=invalid_state"]
            /\ sent' = NoCall
            /\ UNCHANGED flight
       ELSE /\ CanSuspend
            /\ flight' = Suspend([kind |-> "callback", sess |-> s,
                                  session |-> SessionAfterCallback(store[s])])
            /\ sent' = TokenRequest(qcode, store[s].codeVerifier)
            /\ resp' = NoResp
    /\ UNCHANGED <<tokens, config, cookies, store, nonce>>
    /\ touched' = Touched

CallbackStart(s, qcode, qstate, qerror) ==
    /\ req' = [kind |-> "callback", phase |-> "start", sess |-> s, code |-> qcode,
               state |-> qstate, error |-> qerror]
    /\ IF Truthy(qerror)
       THEN /\ resp' = [kind |-> "callback", status |-> 302,
                        location |-> ErrorRedirect(qerror)]
            /\ sent' = NoCall
            /\ UNCHANGED flight
       ELSE IF ~StateValid(qstate, store[s].oauthState)
       THEN /\ resp' = [kind |-> "callback", status |-> 302,
                        location |-> "/?error=invalid_state"]
            /\ sent' = NoCall
            /\ UNCHANGED flight
       ELSE /\ CanSuspend
            /\ flight' = Suspend([kind |-> "callback", sess |-> s,
                                  session |-> SessionAfterCallback(store[s])])
            /\ sent' = TokenRequest(qcode, store[s].codeVerifier)
            /\ resp' = NoResp
    /\ UNCHANGED <<tokens, config, cookies, store, nonce>>
    /\ touched' = Touched

\* a callback that stores the configured login host as the instance URL
CallbackTokensLoginHost(out) ==
    IF out.type = "json" /\ out.ok
    THEN [accessToken |-> out.body.access_token,
          refreshToken |-> out.body.refresh_token,
          instanceUrl |-> LoginUrl]
    ELSE [accessToken |-> accessToken, refreshToken |-> refreshToken,
          instanceUrl |-> instanceUrl]

\* a callback that stores the fields of whatever JSON body arrived, error
\* bodies included
CallbackTokensAnyStatus(out) ==
    IF out.type = "json"
    THEN IF out.ok
         THEN [accessToken |-> out.body.access_token,
               refreshToken |-> out.body.refresh_token,
               instanceUrl |-> out.body.instance_url]
         ELSE [accessToken |-> UNDEF, refreshToken |-> UNDEF, instanceUrl |-> UNDEF]
    ELSE [accessToken |-> accessToken, refreshToken |-> refreshToken,
          instanceUrl |-> instanceUrl]

\* a callback that keeps the stored refresh token when the response has none
CallbackTokensKeepRefresh(out) ==
    IF out.type = "json" /\ out.ok
    THEN [accessToken |-> out.body.access_token,
          refreshToken |-> OrElse(out.body.refresh_token, refreshToken),
          instanceUrl |-> out.body.instance_url]
    ELSE [accessToken |-> accessToken, refreshToken |-> refreshToken,
          instanceUrl |-> instanceUrl]

\* the token variables after the token endpoint answered the callback's POST
CallbackTokens(out) ==
    IF out.type = "json" /\ out.ok
    THEN [accessToken |-> out.body.access_token,
          refreshToken |-> out.body.refresh_token,
          instanceUrl |-> out.body.instance_url]
    ELSE [accessToken |-> accessToken, refreshToken |-> refreshToken,
          instanceUrl |-> instanceUrl]

\* where the callback redirects the browser after the token endpoint answered
CallbackLocation(out) ==
    IF out.type # "json" THEN ErrorRedirect("Authentication failed")
    ELSE IF out.ok
         THEN \* accessToken.substring throws when the body had no access_token
              IF out.body.access_token = UNDEF
              THEN ErrorRedirect("Authentication failed")
              ELSE "/?auth=success"
         ELSE ErrorRedirect(OrElse(out.error_description, "Token exchange failed"))

\* a callback that stores the access token, waits, and stores the rest later
CallbackResumeSplit(c, out) ==
    /\ c.kind = "callback"
    /\ req' = [kind |-> "callback", phase |-> "resume", sess |-> c.sess, out |-> out]
    /\ accessToken' = CallbackTokens(out).accessToken
    /\ resp' = NoResp
    /\ sent' = NoCall
    /\ UNCHANGED <<refreshToken, instanceUrl, config, cookies, store, nonce, flight>>
    /\ touched' = Touched

CallbackResume(c, out) ==
    /\ c.kind = "callback"
    /\ req' = [kind |-> "callback", phase |-> "resume", sess |-> c.sess, out |-> out]
    \* the request's session, modified by the deletes, is saved when the
    \* response ends
    /\ store' = [store EXCEPT ![c.sess] = c.session]
    /\ accessToken' = CallbackTokens(out).accessToken
    /\ refreshToken' = CallbackTokens(out).refreshToken
    /\ instanceUrl' = CallbackTokens(out).instanceUrl
    /\ resp' = [kind |-> "callback", status |-> 302, location |-> CallbackLocation(out)]
    /\ flight' = Resume(c)
    /\ sent' = NoCall
    /\ UNCHANGED <<config, cookies, nonce>>
    /\ touched' = Touched

\* ------------------------------------------------------- status, logout
StatusBody(at, rt, iu) ==
    [authenticated |-> Truthy(at), hasRefreshToken |-> Truthy(rt), instanceUrl |-> iu]

\* a status that asks the provider whether the stored token is still valid
StatusProbing ==
    /\ req' = [kind |-> "status", phase |-> "start"]
    /\ resp' = [kind |-> "status", status |-> 200,
                body |-> StatusBody(accessToken, refreshToken, instanceUrl)]
    /\ sent' = IF Truthy(accessToken)
               THEN [to |-> "api", url |-> instanceUrl,
                     authorization |-> "Bearer " \o accessToken]
               ELSE NoCall
    /\ UNCHANGED <<tokens, config, cookies, store, nonce, flight>>
    /\ touched' = Touched

Status ==
    /\ req' = [kind |-> "status", phase |-> "start"]
    /\ resp' = [kind |-> "status", status |-> 200,
                body |-> StatusBody(accessToken, refreshToken, instanceUrl)]
    /\ sent' = NoCall
    /\ UNCHANGED <<tokens, config, cookies, store, nonce, flight>>
    /\ touched' = Touched

\* a logout that forgets the refresh token variable
LogoutKeepsRefreshToken ==
    /\ req' = [kind |-> "logout", phase |-> "start"]
    /\ accessToken' = NULL
    /\ instanceUrl' = NULL
    /\ resp' = [kind |-> "logout", status |-> 200, success |-> TRUE]
    /\ sent' = NoCall
    /\ UNCHANGED <<refreshToken, config, cookies, store, nonce, flight>>
    /\ touched' = Touched

\* a logout that forgets the access token only
LogoutAccessTokenOnly ==
    /\ req' = [kind |-> "logout", phase |-> "start"]
    /\ accessToken' = NULL
    /\ resp' = [kind |-> "logout", status |-> 200, success |-> TRUE]
    /\ sent' = NoCall
    /\ UNCHANGED <<refreshToken, instanceUrl, config, cookies, store, nonce, flight>>
    /\ touched' = Touched

Logout ==
    /\ req' = [kind |-> "logout", phase |-> "start"]
    /\ accessToken' = NULL
    /\ refreshToken' = NULL
    /\ instanceUrl' = NULL
    /\ resp' = [kind |-> "logout", status |-> 200, success |-> TRUE]
    /\ sent' = NoCall
    /\ UNCHANGED <<config, cookies, store, nonce, flight>>
    /\ touched' = Touched

\* ------------------------------------------------------------- refresh
\* answers of the token endpoint to a refresh POST
RefreshBodies ==
    {[access_token |-> "T1", refresh_token |-> UNDEF],
     [access_token |-> "T2", refresh_token |-> UNDEF],
     [access_token |-> "T1", refresh_token |-> "R1"],
     [access_token |-> "T2", refresh_token |-> "R2"],
     [access_token |-> UNDEF, refresh_token |-> UNDEF]}
RefreshOutcomes ==
    {[type |-> "reject"], [type |-> "badjson"]}
    \cup {[type |-> "json", ok |-> TRUE, body |-> b] : b \in RefreshBodies}
    \cup {[type |-> "json", ok |-> FALSE, error_description |-> d] :
            d \in ErrorDescriptions \cup {UNDEF}}

\* the response of the refresh endpoint when no refresh token is stored
NoRefreshTokenResponse ==
    [kind |-> "refresh", status |-> 401, success |-> FALSE,
     error |-> "No refresh token available"]

RefreshStart ==
    /\ req' = [kind |-> "refresh", phase |-> "start"]
    /\ IF ~Truthy(refreshToken)
       THEN /\ resp' = NoRefreshTokenResponse
            /\ sent' = NoCall
            /\ UNCHANGED flight
       ELSE /\ CanSuspend
            /\ flight' = Suspend([kind |-> "refresh", url |-> instanceUrl])
            /\ sent' = [to |-> "refresh", url |-> instanceUrl,
                        grant_type |-> "refresh_token", refresh_token |-> refreshToken]
            /\ resp' = NoResp
    /\ UNCHANGED <<tokens, config, cookies, store, nonce>>
    /\ touched' = Touched

\* a refresh that assigns the response's refresh_token unconditionally
RefreshedRefreshTokenUnconditional(old, body) == body.refresh_token

\* the refresh token kept after a successful refresh
RefreshedRefreshToken(old, body) ==
    IF Truthy(body.refresh_token) THEN body.refresh_token ELSE old

\* the response of the refresh endpoint after the token endpoint answered
RefreshResponse(out) ==
    IF out.type = "reject"
    THEN [kind |-> "refresh", status |-> 500, success |-> FALSE,
          error |-> "request to token endpoint failed"]
    ELSE IF out.type = "badjson"
    THEN [kind |-> "refresh", status |-> 500, success |-> FALSE,
          error |-> "invalid json response body"]
    ELSE IF out.ok
    THEN [kind |-> "refresh", status |-> 200, success |-> TRUE,
          message |-> "Token refreshed successfully"]
    ELSE [kind |-> "refresh", status |-> 400, success |-> FALSE,
          error |-> OrElse(out.error_description, "Token refresh failed")]

\* a refresh that forgets the access token when the provider refuses
RefreshResumeClearing(c, out) ==
    /\ c.kind = "refresh"
    /\ req' = [kind |-> "refresh", phase |-> "resume", out |-> out, url |-> c.url]
    /\ IF out.type = "json" /\ out.ok
       THEN /\ accessToken' = out.body.access_token
            /\ refreshToken' = RefreshedRefreshToken(refreshToken, out.body)
       ELSE /\ accessToken' = NULL
            /\ UNCHANGED refreshToken
    /\ resp' = RefreshResponse(out)
    /\ flight' = Resume(c)
    /\ sent' = NoCall
    /\ UNCHANGED <<instanceUrl, config, cookies, store, nonce>>
    /\ touched' = Touched

RefreshResume(c, out) ==
    /\ c.kind = "refresh"
    /\ req' = [kind |-> "refresh", phase |-> "resume", out |-> out, url |-> c.url]
    /\ IF out.type = "json" /\ out.ok
       THEN /\ accessToken' = out.body.access_token
            /\ refreshToken' = RefreshedRefreshToken(refreshToken, out.body)
       ELSE UNCHANGED <<accessToken, refreshToken>>
    /\ resp' = RefreshResponse(out)
    /\ flight' = Resume(c)
    /\ sent' = NoCall
    /\ UNCHANGED <<instanceUrl, config, cookies, store, nonce>>
    /\ touched' = Touched

\* ----------------------------------------- authenticated request helper
\* answers of the REST API to a contact request: the fetch rejects
\* (status 0), or a status arrives with a body
ApiMessages == {"Session expired or invalid", "REQUIRED_FIELD_MISSING: [LastName]"}
ApiBodies ==
    {[form |-> "empty"], [form |-> "text", text |-> "Bad Gateway"],
     [form |-> "object", id |-> "003A"]}
    \cup {[form |-> "array", message |-> m] : m \in ApiMessages}
ApiStatuses == {201, 401}
ApiOutcomes ==
    {[status |-> 0]} \cup {[status |-> st, body |-> b] : st \in ApiStatuses, b \in ApiBodies}

StatusText(st) ==
    CASE st = 201 -> "Created"
      [] st = 401 -> "Unauthorized" [] OTHER -> ""

\* response.ok
Ok(st) == st >= 200 /\ st <= 299

\* data after the body was read as text and parsed
ParseBody(b) ==
    CASE b.form = "empty" -> [form |-> "null"]
      [] b.form = "text" -> [form |-> "object", rawResponse |-> b.text]
      [] OTHER -> b

\* data?.[0]?.message || data?.message || data?.rawResponse || `HTTP ...`
ErrorMessage(st, data) ==
    IF data.form = "array" THEN data.message
    ELSE IF data.form = "object" /\ "message" \in DOMAIN data THEN data.message
    ELSE IF data.form = "object" /\ "rawResponse" \in DOMAIN data THEN data.rawResponse
    ELSE "HTTP " \o ToString(st) \o ": " \o StatusText(st)

\* what makeAuthenticatedRequest does with the answer to its request:
\* throws an Error or returns the parsed data
WrapperResult(out) ==
    IF out.status = 0
    THEN [threw |-> TRUE, message |-> "request to API failed"]
    ELSE IF ~Ok(out.status)
    THEN [threw |-> TRUE, message |-> ErrorMessage(out.status, ParseBody(out.body))]
    ELSE [threw |-> FALSE, data |-> ParseBody(out.body)]

\* the request makeAuthenticatedRequest issues
ApiRequest(url) ==
    [to |-> "api", url |-> url, authorization |-> "Bearer " \o accessToken]

\* ------------------------------------------------------ create contact
NotAuthenticatedResponse ==
    [kind |-> "contacts", status |-> 401, code |-> "AUTHENTICATION_REQUIRED",
     message |-> "Not authenticated with Salesforce"]

CreateContactStart ==
    /\ req' = [kind |-> "contacts", phase |-> "start"]
    /\ IF ~Truthy(accessToken)
       THEN /\ resp' = NotAuthenticatedResponse
            /\ sent' = NoCall
            /\ UNCHANGED flight
       ELSE /\ CanSuspend
            /\ flight' = Suspend([kind |-> "contacts", requests |-> 1, refreshes |-> 0])
            /\ sent' = ApiRequest(instanceUrl)
            /\ resp' = NoResp
    /\ UNCHANGED <<tokens, config, cookies, store, nonce>>
    /\ touched' = Touched

\* error.message.includes('REQUIRED_FIELD_MISSING')
IncludesRequiredFieldMissing(m) == m = "REQUIRED_FIELD_MISSING: [LastName]"

\* a handler whose try block does not cover the reading of data.id: the
\* TypeError escapes and nothing is sent
CreateContactResponseUncaught(c, r) ==
    IF r.threw
    THEN [kind |-> "contacts", status |-> 500, code |-> "INTERNAL_ERROR",
          message |-> r.message,
          requests |-> c.requests, refreshes |-> c.refreshes]
    ELSE IF r.data.form = "null"
    THEN NoResp
    ELSE [kind |-> "contacts", status |-> 201,
          id |-> IF "id" \in DOMAIN r.data THEN r.data.id ELSE UNDEF,
          success |-> TRUE,
          requests |-> c.requests, refreshes |-> c.refreshes]

\* the response of the create-contact handler after the helper finished
CreateContactResponse(c, r) ==
    IF r.threw
    THEN IF IncludesRequiredFieldMissing(r.message)
         THEN [kind |-> "contacts", status |-> 400, code |-> "VALIDATION_ERROR",
               message |-> "Required fields are missing",
               requests |-> c.requests, refreshes |-> c.refreshes]
         ELSE [kind |-> "contacts", status |-> 500, code |-> "INTERNAL_ERROR",
               message |-> r.message,
               requests |-> c.requests, refreshes |-> c.refreshes]
    ELSE IF r.data.form = "null"
    THEN \* data.id throws on the null data of an empty body
         [kind |-> "contacts", status |-> 500, code |-> "INTERNAL_ERROR",
          message |-> "Cannot read properties of null (reading 'id')",
          requests |-> c.requests, refreshes |-> c.refreshes]
    ELSE [kind |-> "contacts", status |-> 201,
          id |-> IF "id" \in DOMAIN r.data THEN r.data.id ELSE UNDEF,
          success |-> TRUE,
          requests |-> c.requests, refreshes |-> c.refreshes]

\* a helper that re-issues its request whenever the answer is a 401
CreateContactResumeRetrying(c, out) ==
    /\ c.kind = "contacts"
    /\ req' = [kind |-> "contacts", phase |-> "resume", out |-> out]
    /\ IF out.status = 401
       THEN /\ flight' = Resume(c) (+) SetToBag({[c EXCEPT !.requests = @ + 1]})
            /\ sent' = ApiRequest(instanceUrl)
            /\ resp' = NoResp
       ELSE /\ resp' = CreateContactResponse(c, WrapperResult(out))
            /\ flight' = Resume(c)
            /\ sent' = NoCall
    /\ UNCHANGED <<tokens, config, cookies, store, nonce>>
    /\ touched' = Touched

CreateContactResume(c, out) ==
    /\ c.kind = "contacts"
    /\ req' = [kind |-> "contacts", phase |-> "resume", out |-> out]
    /\ resp' = CreateContactResponse(c, WrapperResult(out))
    /\ flight' = Resume(c)
    /\ sent' = NoCall
    /\ UNCHANGED <<tokens, config, cookies, store, nonce>>
    /\ touched' = Touched

\* ------------------------------------------------------ bulk operations
\* the bulk request's body: its operation and the number of ids it lists
BulkOperations == {"delete", "merge"}
BulkSizes == {1, 2}

\* answers of the REST API to a DELETE of one contact
BulkOutcomes ==
    {[status |-> 0],
     [status |-> 204, body |-> [form |-> "empty"]],
     [status |-> 401, body |-> [form |-> "array", message |-> "Session expired or invalid"]]}

\* a helper without its guard
WrapperGuardAbsent(at) == FALSE

\* the guard of makeAuthenticatedRequest: it throws before any fetch
WrapperGuard(at) == ~Truthy(at)

NotAuthenticatedMessage == "Not authenticated with Salesforce"

\* n results of a helper that threw on its guard
RECURSIVE GuardFailures(_)
GuardFailures(n) ==
    IF n = 0 THEN <<>> ELSE <<NotAuthenticatedMessage>> \o GuardFailures(n - 1)

\* results.filter(r => !r.success) is not empty
HasErrors(results) == \E i \in 1 .. Len(results) : results[i] # "ok"

BulkResponse(results) ==
    [kind |-> "bulk", status |-> 200, hasErrors |-> HasErrors(results),
     results |-> results]

BulkStart(op, n) ==
    /\ req' = [kind |-> "bulk", phase |-> "start", operation |-> op, ids |-> n]
    /\ IF ~Truthy(accessToken)
       THEN /\ resp' = [kind |-> "bulk", status |-> 401,
                        code |-> "AUTHENTICATION_REQUIRED",
                        message |-> "Not authenticated with Salesforce"]
            /\ sent' = NoCall
            /\ UNCHANGED flight
       ELSE IF op # "delete"
       THEN /\ resp' = [kind |-> "bulk", status |-> 400, code |-> "VALIDATION_ERROR",
                        message |-> "Invalid bulk operation or missing data"]
            /\ sent' = NoCall
            /\ UNCHANGED flight
       ELSE /\ CanSuspend
            /\ flight' = Suspend([kind |-> "bulk", left |-> n - 1, results |-> <<>>])
            /\ sent' = ApiRequest(instanceUrl)
            /\ resp' = NoResp
    /\ UNCHANGED <<tokens, config, cookies, store, nonce>>
    /\ touched' = Touched

\* the loop takes the answer for one id and calls the helper for the next;
\* a helper that throws on its guard does so for every id that is left
\* before another handler can run
BulkResume(c, out) ==
    /\ c.kind = "bulk"
    /\ req' = [kind |-> "bulk", phase |-> "resume", out |-> out, left |-> c.left]
    /\ LET r == WrapperResult(out)
           results == Append(c.results, IF r.threw THEN r.message ELSE "ok")
       IN  IF c.left = 0
           THEN /\ resp' = BulkResponse(results)
                /\ flight' = Resume(c)
                /\ sent' = NoCall
           ELSE IF WrapperGuard(accessToken)
           THEN /\ resp' = BulkResponse(results \o GuardFailures(c.left))
                /\ flight' = Resume(c)
                /\ sent' = NoCall
           ELSE /\ flight' = Resume(c)
                              (+) SetToBag({[c EXCEPT !.left = @ - 1, !.results = results]})
                /\ sent' = ApiRequest(instanceUrl)
                /\ resp' = NoResp
    /\ UNCHANGED <<tokens, config, cookies, store, nonce>>
    /\ touched' = Touched

\* ----------------------------------------------------------------- Next
Next ==
    \/ \E s \in cookies : LoginStart(s)
    \/ \E c \in Suspended, p \in ProbeOutcomes : LoginResume(c, p)
    \/ \E s \in cookies, c \in QueryCodes, q \in QueryStates, e \in QueryErrors :
          CallbackStart(s, c, q, e)
    \/ \E c \in Suspended, o \in TokenOutcomes : CallbackResume(c, o)
    \/ RefreshStart
    \/ \E c \in Suspended, o \in RefreshOutcomes : RefreshResume(c, o)
    \/ Status
    \/ Logout
    \/ CreateContactStart
    \/ \E c \in Suspended, o \in ApiOutcomes : CreateContactResume(c, o)

Spec == Init /\ [][Next]_vars

\* every handler, with a provider whose 2xx token responses always carry
\* access_token (and instance_url, on the authorization code grant)
WellFormedTokenOutcomes ==
    {o \in TokenOutcomes :
        (o.type = "json" /\ o.ok) =>
            (Truthy(o.body.access_token) /\ Truthy(o.body.instance_url))}
WellFormedRefreshOutcomes ==
    {o \in RefreshOutcomes :
        (o.type = "json" /\ o.ok) => Truthy(o.body.access_token)}

NextWellFormed ==
    \/ \E s \in cookies : LoginStart(s)
    \/ \E c \in Suspended, p \in ProbeOutcomes : LoginResume(c, p)
    \/ \E s \in cookies, c \in QueryCodes, q \in QueryStates, e \in QueryErrors :
          CallbackStart(s, c, q, e)
    \/ \E c \in Suspended, o \in WellFormedTokenOutcomes : CallbackResume(c, o)
    \/ RefreshStart
    \/ \E c \in Suspended, o \in WellFormedRefreshOutcomes : RefreshResume(c, o)
    \/ Status
    \/ Logout
    \/ CreateContactStart
    \/ \E c \in Suspended, o \in ApiOutcomes : CreateContactResume(c, o)

SpecWellFormed == Init /\ [][NextWellFormed]_vars

\* the handshake alone, with two browsers
NextHandshake ==
    \/ \E s \in cookies : LoginStart(s)
    \/ \E c \in Suspended, p \in ProbeOutcomes : LoginResume(c, p)
    \/ \E s \in cookies, c \in QueryCodes, q \in QueryStates, e \in QueryErrors :
          CallbackStart(s, c, q, e)
    \/ \E c \in Suspended, o \in TokenOutcomes : CallbackResume(c, o)
    \/ Status
    \/ Logout

SpecSessions == InitSessions /\ [][NextHandshake]_vars

\* the handshake, logout and the bulk contact endpoint, with one browser
NextBulk ==
    \/ \E s \in cookies : LoginStart(s)
    \/ \E c \in Suspended, p \in ProbeOutcomes : LoginResume(c, p)
    \/ \E s \in cookies, c \in QueryCodes, q \in QueryStates, e \in QueryErrors :
          CallbackStart(s, c, q, e)
    \/ \E c \in Suspended, o \in TokenOutcomes : CallbackResume(c, o)
    \/ Logout
    \/ \E op \in BulkOperations, n \in BulkSizes : BulkStart(op, n)
    \/ \E c \in Suspended, o \in BulkOutcomes : BulkResume(c, o)

SpecBulk == Init /\ [][NextBulk]_vars

\* ======================================================================
\* Properties.  Each is a predicate on the state a step leaves behind: req
\* names the handler that ran and what it ran on, sent and resp what it sent,
\* touched what it changed.  A handler's first step changes neither the
\* session store nor the token variables, so these still hold the values
\* that step read.
\* ======================================================================
ErrorLocations ==
    {ErrorRedirect(v) : v \in {"Authentication failed", "Token exchange failed",
                               "access_denied"} \cup ErrorDescriptions}
    \cup {"/?error=invalid_state"}

StateMismatch ==
    /\ req.kind = "callback"
    /\ req.phase = "start"
    /\ (req.state = 0 \/ req.state # store[req.sess].oauthState)

\* C1 (as the code has it): a callback whose state parameter is missing or
\* differs from the oauthState stored in its session never issues the token
\* POST and is answered with a redirect; when the request carries no error
\* parameter the redirect goes to /?error=invalid_state.
C1_StateBinding ==
    StateMismatch =>
        /\ sent = NoCall
        /\ resp.kind = "callback"
        /\ resp.status = 302
        /\ (~Truthy(req.error) => resp.location = "/?error=invalid_state")

\* C1 as stated: every callback with a missing or different state is
\* redirected to /?error=invalid_state.
C1_StateBinding_AsClaimed ==
    StateMismatch => (sent = NoCall /\ resp.location = "/?error=invalid_state")

\* a callback presenting the state issued to the other browser's session
C1_Witness ==
    /\ StateMismatch
    /\ ~Truthy(req.error)
    /\ req.state # 0
    /\ \E t \in cookies \ {req.sess} : store[t].oauthState = req.state
    /\ resp.location = "/?error=invalid_state"
    /\ sent = NoCall

C3_OneShotRecovery ==
    (/\ req.kind = "contacts"
     /\ req.phase = "resume"
     /\ req.out.status = 401
     /\ Truthy(refreshToken))
    => (sent.to = "refresh" /\ resp = NoResp)

BoundedCounts(r) ==
    /\ r.requests <= 2
    /\ r.refreshes <= 1
    /\ (r.requests = 2 => r.refreshes = 1)

StatusReportsStored ==
    req.kind = "status" =>
        /\ sent = NoCall
        /\ resp.body = StatusBody(accessToken, refreshToken, instanceUrl)

\* C5: logout leaves the three token variables null and issues no provider
\* call; status reports the stored tokens, so after logout authenticated and
\* hasRefreshToken are false; a contact request arriving while accessToken
\* is null is answered 401 AUTHENTICATION_REQUIRED without an outbound request.
C5_LogoutClears ==
    /\ req.kind = "logout" =>
          /\ accessToken = NULL /\ refreshToken = NULL /\ instanceUrl = NULL
          /\ sent = NoCall
          /\ resp.status = 200
          /\ ~StatusBody(accessToken, refreshToken, instanceUrl).authenticated
          /\ ~StatusBody(accessToken, refreshToken, instanceUrl).hasRefreshToken
    /\ StatusReportsStored
    /\ (req.kind = "contacts" /\ req.phase = "start" /\ ~Truthy(accessToken)) =>
          (resp = NotAuthenticatedResponse /\ sent = NoCall)

\* logout ran on stored tokens while a contact request was in flight
C5_Witness ==
    /\ req.kind = "logout"
    /\ touched = {"accessToken", "refreshToken", "instanceUrl"}
    /\ \E c \in Suspended : c.kind = "contacts"

\* C6: a successful refresh whose response has no refresh_token leaves the
\* stored refreshToken as it was; one whose response has a refresh_token
\* stores that one.
C6_RefreshKeepsRefreshToken ==
    (/\ req.kind = "refresh"
     /\ req.phase = "resume"
     /\ req.out.type = "json"
     /\ req.out.ok)
    => /\ resp.status = 200
       /\ (req.out.body.refresh_token = UNDEF => "refreshToken" \notin touched)
       /\ (req.out.body.refresh_token # UNDEF =>
              refreshToken = req.out.body.refresh_token)

\* a refresh replaced the access token and kept the refresh token
C6_Witness ==
    /\ req.kind = "refresh"
    /\ req.phase = "resume"
    /\ resp.status = 200
    /\ req.out.body.refresh_token = UNDEF
    /\ touched = {"accessToken"}
    /\ refreshToken \in RefreshTokens

\* C7: a refresh request arriving while no refresh token is stored is
\* answered 401 with the code NO_REFRESH_TOKEN, issues no call and changes
\* no token variable.
C7_NoRefreshToken ==
    (req.kind = "refresh" /\ req.phase = "start" /\ ~Truthy(refreshToken))
    => /\ resp.kind = "refresh"
       /\ resp.status = 401
       /\ "code" \in DOMAIN resp
       /\ resp.code = "NO_REFRESH_TOKEN"
       /\ sent = NoCall
       /\ touched = {}

\* C8: a callback whose exchange returns 2xx with access_token, refresh_token
\* and instance_url redirects to /?auth=success and leaves tokens of which
\* status reports authenticated, hasRefreshToken and the response's
\* instance_url; status always reports the tokens stored.
C8_LoginRoundTrip ==
    /\ (/\ req.kind = "callback"
        /\ req.phase = "resume"
        /\ req.out.type = "json"
        /\ req.out.ok
        /\ Truthy(req.out.body.access_token)
        /\ Truthy(req.out.body.refresh_token)
        /\ Truthy(req.out.body.instance_url))
       => /\ resp.location = "/?auth=success"
          /\ StatusBody(accessToken, refreshToken, instanceUrl) =
                [authenticated |-> TRUE, hasRefreshToken |-> TRUE,
                 instanceUrl |-> req.out.body.instance_url]
    /\ req.kind = "status" =>
          resp.body = StatusBody(accessToken, refreshToken, instanceUrl)

\* status after a completed login
C8_Witness ==
    /\ req.kind = "status"
    /\ resp.body = [authenticated |-> TRUE, hasRefreshToken |-> TRUE,
                    instanceUrl |-> "https://org.example.com"]
    /\ \A s \in cookies : store[s] = NoSession
    /\ nonce > 0

\* C9: a 401 answer to the helper's first request, with a refresh token
\* stored, is not what the caller receives: the helper goes on to refresh
\* and re-issue the request.
C9_RetryCarriesRefreshedToken ==
    (/\ req.kind = "contacts"
     /\ req.phase = "resume"
     /\ req.out.status = 401
     /\ Truthy(refreshToken)
     /\ Truthy(accessToken))
    => resp.kind # "contacts"

\* C10: a callback whose token POST is answered with a non-2xx status changes
\* none of accessToken, refreshToken and instanceUrl and redirects the
\* browser to an error URL.
C10_FailedExchangeKeepsTokens ==
    (/\ req.kind = "callback"
     /\ req.phase = "resume"
     /\ req.out.type = "json"
     /\ ~req.out.ok)
    => /\ touched \subseteq {"session"}
       /\ resp.status = 302
       /\ SubSeq(resp.location, 1, 8) = "/?error="
       /\ resp.location \in ErrorLocations

\* a second login's exchange failed while the first login's tokens are stored
C10_Witness ==
    /\ req.kind = "callback"
    /\ req.phase = "resume"
    /\ resp.location = ErrorRedirect("expired authorization code")
    /\ accessToken \in AccessTokens
    /\ refreshToken \in RefreshTokens
    /\ instanceUrl \in InstanceUrls

TokenNames == {"accessToken", "refreshToken", "instanceUrl"}

C12_ConfigurationError ==
    (config.clientId = "" \/ config.clientSecret = "")
    => /\ \A s \in cookies : store[s] = NoSession
       /\ nonce = 0
       /\ \A c \in Suspended : c.kind # "login"
       /\ req.kind = "login" =>
             /\ resp.kind = "login"
             /\ resp.status = 500
             /\ resp.error = "OAuth configuration incomplete"
             /\ sent = NoCall
             /\ touched = {}

\* login was refused for a missing client secret
C12_Witness ==
    /\ req.kind = "login"
    /\ config.clientId # ""
    /\ config.clientSecret = ""
    /\ resp.status = 500
    /\ sent = NoCall

\* C13: a handler step that reaches the authenticated request helper while
\* accessToken is null or undefined issues no request: the bulk endpoint
\* answers 401 AUTHENTICATION_REQUIRED on arrival, and a bulk operation
\* that finds the token gone between two ids records "Not
\* authenticated with Salesforce" for every id that is left.
C13_FailFast ==
    (req.kind = "bulk" /\ ~Truthy(accessToken))
    => /\ sent = NoCall
       /\ resp.kind = "bulk"
       /\ req.phase = "start" =>
             (resp.status = 401 /\ resp.code = "AUTHENTICATION_REQUIRED")
       /\ (req.kind = "bulk" /\ req.phase = "resume") =>
             /\ Len(resp.results) >= req.left + 1
             /\ \A i \in 1 .. req.left :
                   resp.results[Len(resp.results) - req.left + i]
                      = "Not authenticated with Salesforce"

\* logout ran while a bulk operation with an id left was waiting
C13_Witness ==
    /\ req.kind = "bulk"
    /\ req.phase = "resume"
    /\ req.left = 1
    /\ accessToken = NULL
    /\ sent = NoCall
    /\ resp.results[2] = "Not authenticated with Salesforce"

\* C14: a callback carrying an error parameter issues no token POST, changes
\* no token variable and redirects to /?error=<the error, URI-encoded>,
\* whatever its code and state parameters are.
C14_ProviderDenied ==
    (req.kind = "callback" /\ req.phase = "start" /\ Truthy(req.error))
    => /\ sent = NoCall
       /\ touched = {}
       /\ resp.status = 302
       /\ resp.location = "/?error=" \o EncodeURIComponent(req.error)

\* the provider denied a callback that presented the session's state
C14_Witness ==
    /\ req.kind = "callback"
    /\ req.phase = "start"
    /\ req.error = "access_denied"
    /\ req.state # 0
    /\ req.state = store[req.sess].oauthState
    /\ resp.location = "/?error=access_denied"

C16_ErrorsStopAtBoundary ==
    req.kind \in {"login", "callback", "refresh", "status", "logout", "contacts"}
    => /\ \/ (req.phase = "start" /\ sent # NoCall /\ resp = NoResp)
          \/ (/\ sent = NoCall
              /\ resp.kind = req.kind
              /\ resp.status \in {200, 201, 302, 400, 401, 500})
       /\ req.phase = "resume" => resp # NoResp

\* a 201 with an empty body: the TypeError of data.id became a 500
C16_Witness ==
    /\ req.kind = "contacts"
    /\ req.phase = "resume"
    /\ req.out.status = 201
    /\ req.out.body.form = "empty"
    /\ resp.status = 500
    /\ resp.code = "INTERNAL_ERROR"

\* C17: the step in which a callback takes a 2xx token response stores all
\* three of access_token, refresh_token and instance_url and sends the
\* redirect: no state exists in which only some of them are stored.
C17_AtomicOverwrite ==
    (/\ req.kind = "callback"
     /\ req.phase = "resume"
     /\ req.out.type = "json"
     /\ req.out.ok)
    => /\ accessToken = req.out.body.access_token
       /\ refreshToken = req.out.body.refresh_token
       /\ instanceUrl = req.out.body.instance_url
       /\ resp.kind = "callback"
       /\ resp.status = 302

\* a callback replaced all three values while a refresh was waiting
C17_Witness ==
    /\ req.kind = "callback"
    /\ req.phase = "resume"
    /\ touched \cap TokenNames = TokenNames
    /\ accessToken = "T2"
    /\ \E c \in Suspended : c.kind = "refresh"

\* C18: while a callback, refresh or contact handler waits for the provider,
\* no other handler runs: the last step taken is the one that suspended it.
C18_RunToCompletion ==
    (\E c \in Suspended : c.kind \in {"callback", "refresh", "contacts"})
    => /\ BagCardinality(flight) = 1
       /\ resp = NoResp
       /\ sent # NoCall

\* C19: a step changes the pending oauthState and codeVerifier of a session
\* only when it is a login or callback on that session, and whether a
\* callback without an error parameter reaches the token exchange depends
\* only on its state parameter and its own session's oauthState.
C19_SessionOwnership ==
    [][/\ \A s \in Sessions :
             store'[s] # store[s] =>
                (req'.kind \in {"login", "callback"} /\ req'.sess = s)
       /\ (/\ req'.kind = "callback"
           /\ req'.phase = "start"
           /\ req'.error \in {NULL, UNDEF, ""})
          => ((sent'.to = "token") <=>
                 (req'.state # 0 /\ req'.state = store[req'.sess].oauthState))
      ]_vars

\* browser B finished a handshake while A's login is still pending
C19_Witness ==
    /\ req.kind = "callback"
    /\ req.phase = "resume"
    /\ req.sess = "B"
    /\ "session" \in touched
    /\ store["A"].oauthState # 0
    /\ store["B"] = NoSession

\* C20: after a successful callback the stored record holds an expiresAt
\* (the time of the response plus expires_in * 1000), and after logout it
\* holds expiresAt = null.
C20_ExpiryTracking ==
    /\ (/\ req.kind \in {"callback", "refresh"}
        /\ req.phase = "resume"
        /\ req.out.type = "json"
        /\ req.out.ok)
       => ("expiresAt" \in DOMAIN TokenRecord /\ TokenRecord.expiresAt \in Nat)
    /\ req.kind = "logout"
       => ("expiresAt" \in DOMAIN TokenRecord /\ TokenRecord.expiresAt = NULL)

\* a callback that was answered without reaching the token exchange
RejectedCallback ==
    /\ req.kind = "callback"
    /\ req.phase = "start"
    /\ resp.kind = "callback"

\* C21 (as the code has it): a callback rejected for an error parameter or
\* an invalid state changes no token variable, so the status that follows
\* reports what status reported before the callback: authenticated:false
\* when no access token was stored, authenticated:true when one was.
C21_FailedCallbackKeepsAuthentication ==
    /\ RejectedCallback =>
          /\ touched \cap TokenNames = {}
          /\ resp.location \in ErrorLocations
    /\ req.kind = "status" =>
          resp.body.authenticated = (accessToken \notin {NULL, UNDEF, ""})

\* C21 as stated: after a rejected callback no access token is stored.
C21_FailedCallback_AsClaimed ==
    RejectedCallback => accessToken \in {NULL, UNDEF, ""}

\* a second login was answered invalid_state while the first login's tokens
\* are stored
C21_Witness ==
    /\ RejectedCallback
    /\ resp.location = "/?error=invalid_state"
    /\ store[req.sess].oauthState # 0
    /\ accessToken \in AccessTokens

\* the callbacks of session s that wait for the token endpoint
ExchangesInFlight(s) ==
    {c \in Suspended : c.kind = "callback" /\ c.sess = s}

\* C22: a callback that passes the state check and issues the token POST is
\* the only callback of its session waiting for the token endpoint: a replay
\* of the callback while the first exchange is in flight is rejected.
C22_StateConsumedBeforeExchange ==
    (req.kind = "callback" /\ req.phase = "start" /\ sent.to = "token")
    => \A c \in ExchangesInFlight(req.sess) : CopiesIn(c, flight) = 1

\* C23: the code_verifier of every token POST is the verifier stored by the
\* login that stored the state the callback validated, and every session
\* holds the state and the verifier of one and the same login.
C23_PkceBinding ==
    /\ sent.to = "token" =>
          /\ "code_verifier" \in DOMAIN sent
          /\ sent.code_verifier = req.state
    /\ \A s \in cookies : store[s].codeVerifier = store[s].oauthState

\* the exchange of a second login on a session, whose first login was
\* superseded
C23_Witness ==
    /\ sent.to = "token"
    /\ req.state = 2
    /\ sent.code_verifier = 2
    /\ \E t \in cookies \ {req.sess} : store[t] = NoSession

\* C24: no step of a login request changes accessToken, refreshToken or
\* instanceUrl.
C24_LoginKeepsTokens ==
    req.kind = "login" => touched \cap TokenNames = {}

\* a login was answered while the tokens of an earlier login are stored
C24_Witness ==
    /\ req.kind = "login"
    /\ req.phase = "resume"
    /\ resp.status = 200
    /\ "session" \in touched
    /\ accessToken \in AccessTokens
    /\ refreshToken \in RefreshTokens

\* C25: after a callback whose exchange returned 2xx, a refresh token is
\* stored exactly when the response had a refresh_token.
C25_CallbackReplacesRefreshToken ==
    (/\ req.kind = "callback"
     /\ req.phase = "resume"
     /\ req.out.type = "json"
     /\ req.out.ok)
    => ((refreshToken \notin {NULL, UNDEF, ""})
          <=> (req.out.body.refresh_token \notin {NULL, UNDEF, ""}))

\* a callback without refresh_token removed the stored refresh token
C25_Witness ==
    /\ req.kind = "callback"
    /\ req.phase = "resume"
    /\ resp.location = "/?auth=success"
    /\ req.out.body.refresh_token = UNDEF
    /\ "refreshToken" \in touched
    /\ refreshToken = UNDEF

\* C26: a callback that redirects to an error URL has changed none of
\* accessToken, refreshToken and instanceUrl.
C26_ErrorRedirectKeepsTokens ==
    (/\ req.kind = "callback"
     /\ resp.kind = "callback"
     /\ SubSeq(resp.location, 1, 8) = "/?error=")
    => touched \cap TokenNames = {}

\* C27: a callback or refresh that was waiting for the provider when logout
\* ran does not store an access token when it completes.
C27_LogoutNotUndone ==
    [][(/\ req.kind = "logout"
        /\ req'.kind \in {"callback", "refresh"}
        /\ req'.phase = "resume")
       => accessToken' \in {NULL, UNDEF, ""}]_vars

\* C28: a refresh that completes writes its access token into the record
\* of the grant it was started against: the instance URL stored then (a
\* refresh never changes it) is the instance URL the refresh was sent to.
C28_SingleGrant ==
    (/\ req.kind = "refresh"
     /\ req.phase = "resume"
     /\ req.out.type = "json"
     /\ req.out.ok
     /\ instanceUrl \notin {NULL, UNDEF, ""})
    => instanceUrl = req.url

\* C29: with every 2xx token response carrying access_token and
\* instance_url, a stored access token comes with a stored instance URL.
C29_InstanceUrlWithAccessToken ==
    (accessToken \notin {NULL, UNDEF, ""}) => (instanceUrl \notin {NULL, UNDEF, ""})

\* C30: with every 2xx token response carrying access_token, a stored
\* refresh token comes with a stored access token: status never reports
\* hasRefreshToken:true with authenticated:false.
C30_RefreshTokenWithAccessToken ==
    /\ (refreshToken \notin {NULL, UNDEF, ""}) => (accessToken \notin {NULL, UNDEF, ""})
    /\ req.kind = "status" =>
          (resp.body.hasRefreshToken => resp.body.authenticated)

\* a refresh that was in flight across a logout stored a rotated refresh token
C30_Witness ==
    /\ req.kind = "refresh"
    /\ req.phase = "resume"
    /\ touched = {"accessToken", "refreshToken"}
    /\ instanceUrl = NULL
    /\ refreshToken \in RefreshTokens
    /\ accessToken \in AccessTokens

====
